---------------------------- MODULE Spec2Model ----------------------------
(***************************************************************************)
(* BiliCut: the acquisition cascade (server.js handlers and the client's   *)
(* analyzeVideo with its generative calls) and the assistant chat session  *)
(* (geminiService, ChatInterface), as state machines.                      *)
(*                                                                         *)
(* Strings the code inspects (URLs, ids, timestamps) are sequences of      *)
(* one-character strings, so that includes / startsWith / the BV regular   *)
(* expression / formatTime are computed as the code computes them.         *)
(* Opaque texts (titles, captions) are plain TLA+ strings.                 *)
(* A JavaScript value that may be undefined is Undef or Some(v).           *)
(***************************************************************************)
EXTENDS Integers, Sequences, FiniteSets, TLC

\* ------------------------------------------------------------------ bounds
\* Longest caption payload / transcription output / generated list modelled.
MaxSegs == 2
\* Most send events one chat scenario handles.
MaxSends == 2
\* Most ChatInterface mounts (tab switches to Chat) one chat scenario handles.
MaxMounts == 2
\* Most analyses (App.handleAnalyze runs) one chat scenario handles.
MaxAnalyses == 2

\* ----------------------------------------------------------- basic values
Undef == [def |-> FALSE]
Some(v) == [def |-> TRUE, v |-> v]
IsDef(o) == o.def

Min(S) == CHOOSE x \in S : \A y \in S : x <= y
Max(S) == CHOOSE x \in S : \A y \in S : x >= y

SeqsUpTo(S, n) == UNION {[1..k -> S] : k \in 0..n}

Lower ==
  {"a","b","c","d","e","f","g","h","i","j","k","l","m","n","o","p","q","r","s","t","u","v","w","x","y","z"}
Upper ==
  {"A","B","C","D","E","F","G","H","I","J","K","L","M","N","O","P","Q","R","S","T","U","V","W","X","Y","Z"}
Digit ==
  {"0","1","2","3","4","5","6","7","8","9"}
\* The character class [a-zA-Z0-9].
Alnum == Lower \cup Upper \cup Digit

\* String.prototype.includes / startsWith on character sequences.
Includes(s, t) ==
  \E i \in 1..(Len(s) - Len(t) + 1) : SubSeq(s, i, i + Len(t) - 1) = t
StartsWith(s, t) ==
  Len(s) >= Len(t) /\ SubSeq(s, 1, Len(t)) = t
\* First index of t in s, 0 when absent (String.prototype.indexOf + 1).
IndexOf(s, t) ==
  LET hits == {i \in 1..(Len(s) - Len(t) + 1) : SubSeq(s, i, i + Len(t) - 1) = t}
  IN  IF hits = {} THEN 0 ELSE Min(hits)

\* --------------------------------------------------------------- the URLs
\* "https://www.bilibili.com/video/BV1a"
UrlBiliFull ==
  <<"h","t","t","p","s",":","/","/","w","w","w",".","b","i","l","i","b","i","l","i",".","c","o","m","/","v","i","d","e","o","/","B","V","1","a">>
\* "BV1a"
UrlBiliBare ==
  <<"B","V","1","a">>
\* "bilibili.com/video"
UrlBiliNoId ==
  <<"b","i","l","i","b","i","l","i",".","c","o","m","/","v","i","d","e","o">>
\* "https://youtube.com/watch?v=abcdefghi12"
UrlYtWatch ==
  <<"h","t","t","p","s",":","/","/","y","o","u","t","u","b","e",".","c","o","m","/","w","a","t","c","h","?","v","=","a","b","c","d","e","f","g","h","i","1","2">>
\* "https://youtube.com/watch?v=xBV12345678"
UrlYtWithBV ==
  <<"h","t","t","p","s",":","/","/","y","o","u","t","u","b","e",".","c","o","m","/","w","a","t","c","h","?","v","=","x","B","V","1","2","3","4","5","6","7","8">>
\* "https://youtu.be/abcdefghi12"
UrlYtShort ==
  <<"h","t","t","p","s",":","/","/","y","o","u","t","u",".","b","e","/","a","b","c","d","e","f","g","h","i","1","2">>
\* "https://youtube.com/watch?v=abc"
UrlYtBadId ==
  <<"h","t","t","p","s",":","/","/","y","o","u","t","u","b","e",".","c","o","m","/","w","a","t","c","h","?","v","=","a","b","c">>
\* "not-a-video"
UrlNotAVideo ==
  <<"n","o","t","-","a","-","v","i","d","e","o">>
\* "xBV1a"
UrlStrayBV ==
  <<"x","B","V","1","a">>
\* "abcdefghi12": a bare YouTube video id
UrlYtBare ==
  <<"a","b","c","d","e","f","g","h","i","1","2">>

Urls ==
  {UrlBiliFull, UrlBiliBare, UrlBiliNoId, UrlYtWatch, UrlYtWithBV, UrlYtShort,
   UrlYtBadId, UrlNotAVideo, UrlStrayBV, UrlYtBare}

\* ------------------------------------------------ the platform identifier
\* url.match(/(BV[a-zA-Z0-9]+)/): the leftmost match, greedy; Undef for null.
MatchBV(s) ==
  LET starts == {i \in 1..(Len(s) - 2) :
                   s[i] = "B" /\ s[i + 1] = "V" /\ s[i + 2] \in Alnum}
  IN  IF starts = {} THEN Undef
      ELSE LET i == Min(starts)
               j == Max({k \in (i + 2)..Len(s) : \A m \in (i + 2)..k : s[m] \in Alnum})
           IN  Some(SubSeq(s, i, j))

\* server.js detectPlatform.
detectPlatform(u) ==
  IF Includes(u, <<"b","i","l","i","b","i","l","i",".","c","o","m">>)
     \/ StartsWith(u, <<"B","V">>)
    THEN "bilibili"
  ELSE IF Includes(u, <<"y","o","u","t","u","b","e",".","c","o","m">>)
          \/ Includes(u, <<"y","o","u","t","u",".","b","e">>)
    THEN "youtube"
  ELSE "unknown"

\* ytdl.getVideoID (library, called by extractId): the v= parameter of a
\* youtube.com URL or the path of a youtu.be URL; it throws unless that is an
\* 11-character id of [a-zA-Z0-9_-].
getVideoID(u) ==
  LET v  == IndexOf(u, <<"v","=">>)
      p  == IndexOf(u, <<"y","o","u","t","u",".","b","e","/">>)
      id == IF v > 0 THEN SubSeq(u, v + 2, Len(u))
            ELSE IF p > 0 THEN SubSeq(u, p + 9, Len(u))
            ELSE <<>>
  IN  IF Len(id) = 11 /\ \A k \in 1..Len(id) : id[k] \in Alnum \cup {"_", "-"}
        THEN [threw |-> FALSE, id |-> Some(id)]
        ELSE [threw |-> TRUE, id |-> Undef]

\* server.js extractId: [threw, id], id Undef for null.
extractId(u, platform) ==
  IF platform = "bilibili" THEN [threw |-> FALSE, id |-> MatchBV(u)]
  ELSE IF platform = "youtube" THEN getVideoID(u)
  ELSE [threw |-> FALSE, id |-> Undef]

\* bilibiliService extractBvid (client side).
extractBvid(inputUrl) == MatchBV(inputUrl)

\* ------------------------------------------------------------- formatTime
DigitChar(d) == <<"0","1","2","3","4","5","6","7","8","9">>[d + 1]

RECURSIVE ToDigits(_)
\* Number.prototype.toString of a non-negative integer.
ToDigits(n) ==
  IF n < 10 THEN <<DigitChar(n)>> ELSE ToDigits(n \div 10) \o <<DigitChar(n % 10)>>

\* String.prototype.padStart(2, '0').
PadStart2(s) == IF Len(s) >= 2 THEN s ELSE <<"0">> \o s

\* server.js formatTime: `${m}:${s.toString().padStart(2, '0')}`.
formatTime(seconds) ==
  LET m == seconds \div 60
      s == seconds % 60
  IN  ToDigits(m) \o <<":">> \o PadStart2(ToDigits(s))


\* ------------------------------------------------------------ data domains
\* Caption texts, start times (seconds), durations and metadata the external
\* services may answer with.
Texts == {"hello", "world"}
Durations == {0, 120}
Titles == {"", "Intro"}
Descriptions == {Undef, Some("desc")}

\* Bilibili subtitle body entries {from, content}.
BiliEntries == {[from |-> 0, content |-> "hello"], [from |-> 65, content |-> "world"]}
BiliPayloads == SeqsUpTo(BiliEntries, MaxSegs)
\* youtube-transcript entries {offset (ms), text}.
YtEntries == {[offset |-> 0, text |-> "hello"], [offset |-> 65000, text |-> "world"]}
YtPayloads == SeqsUpTo(YtEntries, MaxSegs)
\* The "transcript" array of the transcription model's JSON answer.
AsrItems == {[startTime |-> 0, text |-> "hello"], [startTime |-> 65, text |-> "world"]}
AsrOutputs == SeqsUpTo(AsrItems, MaxSegs)

\* Audio payload sizes in bytes, around the clip limit of server.js.
ClipLimit == 20 * 1024 * 1024
AudioSizes == {0, ClipLimit, ClipLimit + 1}

\* Segments and highlights the content model may return (any ids, texts, times).
GenSegments ==
  {[id |-> <<"g", 1>>, text |-> "hello", timestamp |-> formatTime(65), startTime |-> 65],
   [id |-> <<"g", 2>>, text |-> "made-up", timestamp |-> formatTime(0), startTime |-> 0]}
GenHighlightItems ==
  {[id |-> "h1", startTime |-> 0, endTime |-> 60],
   [id |-> "h2", startTime |-> 65, endTime |-> 10]}
\* JSON.parse results: null, or an object whose two fields may each be absent.
JsonNull == [type |-> "null"]
JsonObject(h, t) == [type |-> "object", highlights |-> h, transcript |-> t]
OptLists(S) == {Undef} \cup {Some(l) : l \in SeqsUpTo(S, MaxSegs)}
JsonValues ==
  {JsonNull} \cup
  {JsonObject(h, t) : h \in OptLists(GenHighlightItems), t \in OptLists(GenSegments)}
\* What ai.models.generateContent can do: throw, answer with empty text, answer
\* with text that is not JSON, answer with JSON text.
GenOutcomes ==
  {[kind |-> "error", value |-> JsonNull], [kind |-> "empty", value |-> JsonNull],
   [kind |-> "badjson", value |-> JsonNull]} \cup
  {[kind |-> "json", value |-> v] : v \in JsonValues}

\* a || b for strings, numbers and possibly-undefined strings.
OrStr(a, b) == IF a = "" THEN b ELSE a
OrNum(a, b) == IF a = 0 THEN b ELSE a
OrOpt(a, b) == IF IsDef(a) /\ a.v # "" THEN a.v ELSE b

\* ------------------------------------------------------------------ state
VARIABLES
  pc,        \* where the acquisition request is (client, server, done)
  url,       \* analyzeVideo's argument
  calls,     \* the external calls issued so far, in order
  srv,       \* the backend handler's locals: platform, id, meta, transcript, source,
             \* and the number of subtitles the player call listed (subtitles)
  clip,      \* the downloaded audio's byteLength and the bufferToUse handed to
             \* transcribeAudioWithGemini (its first and end byte offsets)
  resp,      \* the backend's HTTP response, and how many were sent (sent)
  cli,       \* analyzeVideo's locals on the backend path
  metaInfo,  \* analyzeVideo's metaInfo on the fallback path
  genArgs,   \* arguments of the last generateVideoContent call, and what
             \* ai.models.generateContent did in it (outcome)
  result,    \* what analyzeVideo returned or threw
  payload,   \* history: the caption payload the backend retrieved
  asrOut,    \* history: the segment list transcribeAudioWithGemini returned
  origin     \* history: which call the record's transcript came from

acqVars ==
  <<pc, url, calls, srv, clip, resp, cli, metaInfo, genArgs, result, payload, asrOut, origin>>

VARIABLES
  chatSession,  \* geminiService's module-level chatSession (Undef for null)
  created,      \* number of conversations ai.chats.create has opened
  inflight,     \* chatSession.sendMessage exchanges not yet settled
  sendLog,      \* history: every sendMessageToGemini call that has settled
  app,          \* App's state: isLoading, videoData, activeTab, error, analyses,
                \* and handleAnalyze's loadingTimer (timer)
  chat,         \* the mounted ChatInterface's state (mounted, inst, isLoading, input, messages)
  sends         \* number of sendMessageToGemini calls started

chatVars == <<chatSession, created, inflight, sendLog, app, chat, sends>>

VARIABLE
  fn            \* the last text function applied: which (op), its input, its output

vars == <<acqVars, chatVars, fn>>

NoMeta ==
  [bvid |-> <<>>, title |-> "", author |-> "", duration |-> 0, description |-> Undef,
   category |-> Undef]
NoBody ==
  [platform |-> "", bvid |-> <<>>, title |-> "", author |-> "", category |-> Undef,
   duration |-> 0, description |-> Undef, transcript |-> <<>>, subtitleSource |-> ""]
NoResult == [kind |-> "none"]
Threw(msg) == [kind |-> "throw", message |-> msg]
Returned(data, source) == [kind |-> "record", data |-> data, source |-> source]

InitAcq ==
  /\ pc = "idle"
  /\ url = <<>>
  /\ calls = <<>>
  /\ srv = [platform |-> "unknown", id |-> <<>>, view |-> "none", meta |-> NoMeta,
            subtitles |-> 0, transcript |-> <<>>, source |-> "none"]
  /\ clip = [byteLength |-> 0, bufferToUse |-> [start |-> 0, end |-> 0]]
  /\ resp = [status |-> 0, body |-> NoBody, sent |-> 0]
  /\ cli = [finalTranscript |-> <<>>, isSimulated |-> FALSE, isAiTranscribed |-> FALSE]
  /\ metaInfo = NoMeta
  /\ genArgs = [title |-> "", description |-> "", duration |-> 0, author |-> "",
                outcome |-> "none"]
  /\ result = NoResult
  /\ payload = Undef
  /\ asrOut = Undef
  /\ origin = "none"


\* ---------------------------------------------------- backend (server.js)
\* res.status(..).json(..) / res.json(..): the handler's one response.
Respond(status, body) ==
  /\ resp' = [status |-> status, body |-> body, sent |-> resp.sent + 1]
  /\ pc' = "cli_resp"

\* The transcript mapping of handleBilibili (subData.body.map).
MapBiliBody(body) ==
  [i \in 1..Len(body) |->
     [id |-> <<"t", i - 1>>, startTime |-> body[i].from, text |-> body[i].content,
      timestamp |-> formatTime(body[i].from)]]

\* The transcript mapping of handleYoutube (ytTranscript.map).
MapYtTranscript(t) ==
  [i \in 1..Len(t) |->
     [id |-> <<"yt-t", i - 1>>, startTime |-> t[i].offset \div 1000, text |-> t[i].text,
      timestamp |-> formatTime(t[i].offset \div 1000)]]

\* The mapping at the end of transcribeAudioWithGemini (json.transcript.map).
MapAsr(items) ==
  [i \in 1..Len(items) |->
     [id |-> <<"ai-t", i - 1>>, startTime |-> items[i].startTime, text |-> items[i].text,
      timestamp |-> formatTime(items[i].startTime)]]

\* The audio payload handed on whole, whatever its size.
BufferToUse_NoClip(byteLength) == [start |-> 0, end |-> byteLength]

\* bufferToUse: audioBuffer.slice(0, 20 * 1024 * 1024) of an oversized audio
\* payload, the payload itself otherwise, as the byte range [start, end).
BufferToUse(byteLength) ==
  [start |-> 0, end |-> IF byteLength > ClipLimit THEN ClipLimit ELSE byteLength]

\* The body of res.json at the end of handleBilibili / handleYoutube.
ResponseBody(platform, meta, transcript, source) ==
  [platform |-> platform, bvid |-> meta.bvid, title |-> meta.title, author |-> meta.author,
   category |-> meta.category, duration |-> meta.duration, description |-> meta.description,
   transcript |-> transcript, subtitleSource |-> source]

\* handleX's final res.json with the handler's current transcript and source.
RespondOk(transcript, source) ==
  /\ srv' = [srv EXCEPT !.transcript = transcript, !.source = source]
  /\ Respond(200, ResponseBody(srv.platform, srv.meta, transcript, source))

\* The metadata the platform's metadata endpoint may answer with for an id.
PlatformMetas(id) ==
  {[bvid |-> id, title |-> "Intro", author |-> "Ann", duration |-> d, description |-> ds,
    category |-> Some("Tech")] : d \in Durations, ds \in Descriptions}

\* analyzeVideo called: the POST to the backend is issued (mockData.ts 75-82).
Analyze(u) ==
  /\ pc = "idle"
  /\ url' = u
  /\ calls' = <<"POST">>
  /\ pc' = "post"
  /\ UNCHANGED <<srv, clip, resp, cli, metaInfo, genArgs, result, payload, asrOut, origin, chatVars, fn>>

\* app.post('/api/analyze') up to the handler call.
ServerRoute ==
  /\ pc = "srv_route"
  /\ LET platform == detectPlatform(url)
         ex == extractId(url, platform)
     IN  IF ex.threw
           THEN Respond(500, NoBody) /\ UNCHANGED srv
         ELSE IF ~IsDef(ex.id)
           THEN Respond(400, NoBody) /\ UNCHANGED srv
         ELSE IF platform \in {"bilibili", "youtube"}
           THEN /\ srv' = [srv EXCEPT !.platform = platform, !.id = ex.id.v]
                /\ pc' = IF platform = "bilibili" THEN "bili_view" ELSE "yt_info"
                /\ UNCHANGED resp
         ELSE Respond(400, NoBody) /\ UNCHANGED srv
  /\ UNCHANGED <<url, calls, clip, cli, metaInfo, genArgs, result, payload, asrOut, origin, chatVars, fn>>

\* handleBilibili 1: the view call; a transport/parse failure or code !== 0 throws.
BiliView ==
  /\ pc = "bili_view"
  /\ calls' = Append(calls, "BILI_VIEW")
  /\ \/ \E o \in {"fail", "reject"} :
          /\ srv' = [srv EXCEPT !.view = o]
          /\ Respond(500, NoBody)
     \/ \E m \in PlatformMetas(srv.id) :
          /\ srv' = [srv EXCEPT !.view = "ok", !.meta = m]
          /\ pc' = "bili_player"
          /\ UNCHANGED resp
  /\ UNCHANGED <<url, clip, cli, metaInfo, genArgs, result, payload, asrOut, origin, chatVars, fn>>

\* The player call with the subtitle body fetched whatever the player listed.
BiliPlayer_AlwaysFetch ==
  /\ pc = "bili_player"
  /\ calls' = Append(calls, "BILI_PLAYER")
  /\ \/ Respond(500, NoBody) /\ UNCHANGED srv
     \/ \E n \in 0..1 :
          /\ srv' = [srv EXCEPT !.subtitles = n]
          /\ pc' = "bili_sub"
          /\ UNCHANGED resp
  /\ UNCHANGED <<url, clip, cli, metaInfo, genArgs, result, payload, asrOut, origin, chatVars, fn>>

\* handleBilibili 2: the player call, outside any try; the branch is taken on
\* playerJson.data?.subtitle?.subtitles?.length > 0.
BiliPlayer ==
  /\ pc = "bili_player"
  /\ calls' = Append(calls, "BILI_PLAYER")
  /\ \/ Respond(500, NoBody) /\ UNCHANGED srv
     \/ \E n \in 0..1 :
          /\ srv' = [srv EXCEPT !.subtitles = n]
          /\ pc' = IF n > 0 THEN "bili_sub" ELSE "bili_playurl"
          /\ UNCHANGED resp
  /\ UNCHANGED <<url, clip, cli, metaInfo, genArgs, result, payload, asrOut, origin, chatVars, fn>>

\* handleBilibili 2: the subtitle body fetch and mapping, outside any try.
BiliSubtitle ==
  /\ pc = "bili_sub"
  /\ calls' = Append(calls, "BILI_SUBTITLE")
  /\ \/ Respond(500, NoBody) /\ UNCHANGED <<srv, payload>>
     \/ \E body \in BiliPayloads :
          /\ payload' = Some([i \in 1..Len(body) |-> body[i].content])
          /\ RespondOk(MapBiliBody(body), "official")
  /\ UNCHANGED <<url, clip, cli, metaInfo, genArgs, result, asrOut, origin, chatVars, fn>>

\* handleBilibili 3: the playurl call inside the try.
BiliPlayUrl ==
  /\ pc = "bili_playurl"
  /\ calls' = Append(calls, "BILI_PLAYURL")
  /\ \/ RespondOk(srv.transcript, srv.source)
     \/ pc' = "bili_audio" /\ UNCHANGED <<srv, resp>>
  /\ UNCHANGED <<url, clip, cli, metaInfo, genArgs, result, payload, asrOut, origin, chatVars, fn>>

\* handleBilibili 3: the audio download and the clip.
BiliAudio ==
  /\ pc = "bili_audio"
  /\ calls' = Append(calls, "BILI_AUDIO")
  /\ \/ RespondOk(srv.transcript, srv.source) /\ UNCHANGED clip
     \/ \E n \in AudioSizes :
          /\ clip' = [byteLength |-> n, bufferToUse |-> BufferToUse(n)]
          /\ pc' = "asr"
          /\ UNCHANGED <<srv, resp>>
  /\ UNCHANGED <<url, cli, metaInfo, genArgs, result, payload, asrOut, origin, chatVars, fn>>

\* handleYoutube 1: ytdl.getInfo, outside any try.
YtInfo ==
  /\ pc = "yt_info"
  /\ calls' = Append(calls, "YT_INFO")
  /\ \/ srv' = [srv EXCEPT !.view = "fail"] /\ Respond(500, NoBody)
     \/ \E m \in PlatformMetas(srv.id) :
          /\ srv' = [srv EXCEPT !.view = "ok", !.meta = m]
          /\ pc' = "yt_transcript"
          /\ UNCHANGED resp
  /\ UNCHANGED <<url, clip, cli, metaInfo, genArgs, result, payload, asrOut, origin, chatVars, fn>>

\* handleYoutube 2: fetchTranscript inside the try.
YtTranscript ==
  /\ pc = "yt_transcript"
  /\ calls' = Append(calls, "YT_TRANSCRIPT")
  /\ \/ pc' = "yt_audio" /\ UNCHANGED <<srv, resp, payload>>
     \/ \E t \in YtPayloads :
          /\ payload' = Some([i \in 1..Len(t) |-> t[i].text])
          /\ RespondOk(MapYtTranscript(t), "official")
  /\ UNCHANGED <<url, clip, cli, metaInfo, genArgs, result, asrOut, origin, chatVars, fn>>

\* handleYoutube 3: the audio stream read into a buffer, and the clip.
YtAudio ==
  /\ pc = "yt_audio"
  /\ calls' = Append(calls, "YT_AUDIO")
  /\ \/ RespondOk(srv.transcript, srv.source) /\ UNCHANGED clip
     \/ \E n \in AudioSizes :
          /\ clip' = [byteLength |-> n, bufferToUse |-> BufferToUse(n)]
          /\ pc' = "asr"
          /\ UNCHANGED <<srv, resp>>
  /\ UNCHANGED <<url, cli, metaInfo, genArgs, result, payload, asrOut, origin, chatVars, fn>>

\* The transcription step with no try/catch around it in the handler: a
\* failure reaches the route's catch and the request ends with a 500.
TranscribeAudio_NoCatch ==
  /\ pc = "asr"
  /\ calls' = Append(calls, "ASR")
  /\ \/ Respond(500, NoBody) /\ UNCHANGED <<srv, asrOut>>
     \/ \E items \in AsrOutputs :
          /\ asrOut' = Some(MapAsr(items))
          /\ RespondOk(MapAsr(items), "ai_transcription")
  /\ UNCHANGED <<url, clip, cli, metaInfo, genArgs, result, payload, origin, chatVars, fn>>

\* The transcription step with source assigned before the await: a failure
\* leaves the handler with source 'ai_transcription' and no transcript.
TranscribeAudio_SourceFirst ==
  /\ pc = "asr"
  /\ calls' = Append(calls, "ASR")
  /\ \/ RespondOk(srv.transcript, "ai_transcription") /\ UNCHANGED asrOut
     \/ \E items \in AsrOutputs :
          /\ asrOut' = Some(MapAsr(items))
          /\ RespondOk(MapAsr(items), "ai_transcription")
  /\ UNCHANGED <<url, clip, cli, metaInfo, genArgs, result, payload, origin, chatVars, fn>>

\* transcribeAudioWithGemini, awaited inside the handlers' try: any failure of
\* the call, of JSON.parse or of the mapping rethrows and the handler's catch
\* leaves transcript and source as they were.
TranscribeAudio ==
  /\ pc = "asr"
  /\ calls' = Append(calls, "ASR")
  /\ \/ RespondOk(srv.transcript, srv.source) /\ UNCHANGED asrOut
     \/ \E items \in AsrOutputs :
          /\ asrOut' = Some(MapAsr(items))
          /\ RespondOk(MapAsr(items), "ai_transcription")
  /\ UNCHANGED <<url, clip, cli, metaInfo, genArgs, result, payload, origin, chatVars, fn>>


\* ------------------------------------------- generative content (client)
EmptyContent == JsonObject(Some(<<>>), Some(<<>>))

\* generateVideoContent without its catch: a call error, an empty text and a
\* JSON.parse error leave the function as exceptions.
generateVideoContent_NoCatch(description, outcome) ==
  IF ~IsDef(description) THEN [threw |-> TRUE, value |-> JsonNull]
  ELSE IF outcome.kind = "json" THEN [threw |-> FALSE, value |-> outcome.value]
  ELSE [threw |-> TRUE, value |-> JsonNull]

\* geminiService generateVideoContent: the prompt is built outside the try, so
\* an undefined description throws (description.slice); inside the try a call
\* error, an empty text and a JSON.parse error all end in the catch's empty
\* content, and parsed JSON of any shape is returned as it is.
generateVideoContent(description, outcome) ==
  IF ~IsDef(description) THEN [threw |-> TRUE, value |-> JsonNull]
  ELSE IF outcome.kind = "json" THEN [threw |-> FALSE, value |-> outcome.value]
  ELSE [threw |-> FALSE, value |-> EmptyContent]

\* ------------------------------------------------ analyzeVideo (client)
\* mockData.ts 154-157: the code after the try/catch, reached when the POST
\* failed, the response was not ok, or anything inside the try threw.
Fallback ==
  IF IsDef(extractBvid(url))
    THEN pc' = "proxy" /\ UNCHANGED result
    ELSE pc' = "done" /\ result' = Threw("Invalid URL")

\* The fetch of the POST settles: rejected (backend unreachable) or delivered.
PostBackend ==
  /\ pc = "post"
  /\ \/ Fallback
     \/ pc' = "srv_route" /\ UNCHANGED result
  /\ UNCHANGED <<url, calls, srv, clip, resp, cli, metaInfo, genArgs, payload, asrOut, origin, chatVars, fn>>

\* mockData.ts 84-109: the response arrives; the flags are derived from
\* subtitleSource and the branch of the generative call is chosen.
ClientResponse ==
  /\ pc = "cli_resp"
  /\ IF resp.status = 200
       THEN LET json == resp.body
                isSimulated == json.subtitleSource \notin {"official", "ai_transcription"}
                isAiTranscribed == json.subtitleSource = "ai_transcription"
            IN  /\ cli' = [finalTranscript |-> json.transcript,
                           isSimulated |-> isSimulated,
                           isAiTranscribed |-> isAiTranscribed]
                /\ pc' = IF ~isSimulated /\ Len(json.transcript) > 0
                           THEN "gen_hl" ELSE "gen_fab"
                /\ UNCHANGED result
       ELSE Fallback /\ UNCHANGED cli
  /\ UNCHANGED <<url, calls, srv, clip, resp, metaInfo, genArgs, payload, asrOut, origin, chatVars, fn>>

\* mockData.ts 134-148: the record of the backend path.
BackendRecord(json, highlights, transcript, isSimulated, isAiTranscribed) ==
  [platform |-> OrStr(json.platform, "bilibili"), bvid |-> json.bvid, title |-> json.title,
   author |-> json.author, category |-> json.category, duration |-> json.duration,
   highlights |-> highlights, transcript |-> transcript,
   isTranscriptSimulated |-> Some(isSimulated), isAiTranscribed |-> Some(isAiTranscribed)]

\* mockData.ts 110-119, 134-148: highlights from the transcript. Reading
\* .highlights of a null answer throws inside the try.
GenerateHighlights ==
  /\ pc = "gen_hl"
  /\ calls' = Append(calls, "GEN")
  /\ \E o \in GenOutcomes :
       LET aiContent == generateVideoContent(Some("TRANSCRIPT_CONTEXT"), o).value
       IN
       /\ genArgs' = [title |-> resp.body.title, description |-> "TRANSCRIPT_CONTEXT",
                      duration |-> resp.body.duration, author |-> resp.body.author,
                      outcome |-> o.kind]
       /\ IF aiContent = JsonNull
             THEN Fallback /\ UNCHANGED origin
             ELSE /\ result' = Returned(BackendRecord(resp.body, aiContent.highlights,
                                          Some(cli.finalTranscript), cli.isSimulated,
                                          cli.isAiTranscribed), "backend")
                  /\ origin' = "backend"
                  /\ pc' = "done"
  /\ UNCHANGED <<url, srv, clip, resp, cli, metaInfo, payload, asrOut, chatVars, fn>>

\* mockData.ts 121-132, 134-148: transcript and highlights both from the
\* generative call. An undefined json.description throws before any call.
GenerateFabricated ==
  /\ pc = "gen_fab"
  /\ IF ~IsDef(resp.body.description)
       THEN Fallback /\ UNCHANGED <<calls, genArgs, origin>>
       ELSE /\ calls' = Append(calls, "GEN")
            /\ \E o \in GenOutcomes :
                 LET aiContent == generateVideoContent(resp.body.description, o).value
                 IN
                 /\ genArgs' = [title |-> resp.body.title,
                                description |-> resp.body.description.v,
                                duration |-> resp.body.duration, author |-> resp.body.author,
                                outcome |-> o.kind]
                 /\ IF aiContent = JsonNull
                       THEN Fallback /\ UNCHANGED origin
                       ELSE /\ result' = Returned(BackendRecord(resp.body, aiContent.highlights,
                                                    aiContent.transcript, cli.isSimulated,
                                                    cli.isAiTranscribed), "backend")
                            /\ origin' = "fabrication"
                            /\ pc' = "done"
  /\ UNCHANGED <<url, srv, clip, resp, cli, metaInfo, payload, asrOut, chatVars, fn>>

\* What the proxied view call may answer with for a bvid.
ProxyMetas(bvid) ==
  {[bvid |-> bvid, title |-> t, author |-> "Ann", duration |-> d, description |-> Some("desc"),
    category |-> Undef] : t \in Titles, d \in Durations}

\* mockData.ts 163-171: the placeholder metadata.
OfflineMeta(bvid) ==
  [bvid |-> bvid, title |-> "Video (Offline Mode)", author |-> "Unknown", duration |-> 600,
   description |-> Some("Could not fetch metadata."), category |-> Some("General")]

\* mockData.ts 159-172 with bilibiliService fetchBilibiliVideoInfo: a transport
\* error, a non-ok status and a non-zero code all throw into the catch.
FetchProxy ==
  /\ pc = "proxy"
  /\ calls' = Append(calls, "PROXY")
  /\ \/ metaInfo' = OfflineMeta(extractBvid(url).v)
     \/ \E m \in ProxyMetas(extractBvid(url).v) : metaInfo' = m
  /\ pc' = "fb_gen"
  /\ UNCHANGED <<url, srv, clip, resp, cli, genArgs, result, payload, asrOut, origin, chatVars, fn>>

\* The record of the fallback path without its simulated flag set.
FallbackRecord_Unflagged(m, aiContent) ==
  [platform |-> "bilibili", bvid |-> m.bvid, title |-> OrStr(m.title, "Untitled"),
   author |-> OrStr(m.author, "Unknown"), category |-> m.category,
   duration |-> OrNum(m.duration, 600), highlights |-> aiContent.highlights,
   transcript |-> aiContent.transcript,
   isTranscriptSimulated |-> Some(FALSE), isAiTranscribed |-> Undef]

\* mockData.ts 182-196: the record of the fallback path.
FallbackRecord(m, aiContent) ==
  [platform |-> "bilibili", bvid |-> m.bvid, title |-> OrStr(m.title, "Untitled"),
   author |-> OrStr(m.author, "Unknown"), category |-> m.category,
   duration |-> OrNum(m.duration, 600), highlights |-> aiContent.highlights,
   transcript |-> aiContent.transcript,
   isTranscriptSimulated |-> Some(TRUE), isAiTranscribed |-> Undef]

\* mockData.ts 174-196: the fallback's generative call, outside any try.
FallbackGenerate ==
  /\ pc = "fb_gen"
  /\ calls' = Append(calls, "GEN")
  /\ \E o \in GenOutcomes :
       LET aiContent ==
             generateVideoContent(Some(OrOpt(metaInfo.description, "")), o).value
       IN
       /\ genArgs' = [title |-> OrStr(metaInfo.title, "Unknown"),
                      description |-> OrOpt(metaInfo.description, ""),
                      duration |-> OrNum(metaInfo.duration, 600),
                      author |-> OrStr(metaInfo.author, "Unknown"),
                      outcome |-> o.kind]
       /\ IF aiContent = JsonNull
             THEN result' = Threw("TypeError") /\ UNCHANGED origin
             ELSE /\ result' = Returned(FallbackRecord(metaInfo, aiContent), "ai-simulated")
                  /\ origin' = "fabrication"
  /\ pc' = "done"
  /\ UNCHANGED <<url, srv, clip, resp, cli, metaInfo, payload, asrOut, chatVars, fn>>

NextAcq ==
  \/ \E u \in Urls : Analyze(u)
  \/ PostBackend
  \/ ServerRoute
  \/ BiliView
  \/ BiliPlayer
  \/ BiliSubtitle
  \/ BiliPlayUrl
  \/ BiliAudio
  \/ YtInfo
  \/ YtTranscript
  \/ YtAudio
  \/ TranscribeAudio
  \/ ClientResponse
  \/ GenerateHighlights
  \/ GenerateFabricated
  \/ FetchProxy
  \/ FallbackGenerate


\* ------------------------------------------- the chat session (geminiService)
\* initializeChat keeps the first 300 segments of the transcript.
ContextCap == 300

\* The lines of the briefing with no cap on the number of segments.
Context_Whole(transcript) ==
  [i \in 1..Len(transcript) |-> <<transcript[i].timestamp, transcript[i].text>>]

\* transcript.slice(0, 300).map(t => `[${t.timestamp}] ${t.text}`): the lines
\* of the briefing, each the pair (timestamp, text).
Context(transcript) ==
  [i \in 1..(IF Len(transcript) < ContextCap THEN Len(transcript) ELSE ContextCap) |->
     <<transcript[i].timestamp, transcript[i].text>>]

\* initializeChat that keeps an existing session instead of replacing it.
initializeChat_KeepsExisting(transcript, session, n, createThrows) ==
  IF ~IsDef(transcript) \/ createThrows
    THEN [threw |-> TRUE, chatSession |-> session, created |-> n]
    ELSE [threw |-> FALSE,
          chatSession |-> IF IsDef(session) THEN session
                          ELSE Some([id |-> n + 1, context |-> Context(transcript.v)]),
          created |-> n + 1]

\* geminiService initializeChat on a transcript that may be undefined:
\* undefined.slice throws before chatSession is assigned, and so does a
\* failing ai.chats.create (createThrows).
initializeChat(transcript, session, n, createThrows) ==
  IF ~IsDef(transcript) \/ createThrows
    THEN [threw |-> TRUE, chatSession |-> session, created |-> n]
    ELSE [threw |-> FALSE,
          chatSession |-> Some([id |-> n + 1, context |-> Context(transcript.v)]),
          created |-> n + 1]

\* sendMessageToGemini without its null check: the message is forwarded anyway.
sendMessageToGemini_NoGuard(session) == [kind |-> "forward", message |-> ""]

\* geminiService sendMessageToGemini up to its await: throw on a null
\* session, else forward the message to the session.
sendMessageToGemini(session) ==
  IF ~IsDef(session)
    THEN [kind |-> "throw", message |-> "Chat session not initialized"]
    ELSE [kind |-> "forward", message |-> ""]

\* What chatSession.sendMessage can do: answer with a text (maybe empty) or fail.
ChatOutcomes ==
  {[kind |-> "text", text |-> "reply"], [kind |-> "text", text |-> ""],
   [kind |-> "error", text |-> ""]}

\* sendMessageToGemini without its catch: a failing capability reaches the caller.
sendMessageReply_NoCatch(outcome) ==
  IF outcome.kind = "error" THEN [kind |-> "throw", text |-> "error"]
  ELSE IF outcome.text = ""
    THEN [kind |-> "return", text |-> "I couldn't generate a response."]
  ELSE [kind |-> "return", text |-> outcome.text]

\* geminiService sendMessageToGemini after its await, inside its try/catch:
\* what the call settles with.
sendMessageReply(outcome) ==
  IF outcome.kind = "error"
    THEN [kind |-> "return",
          text |-> "Sorry, I encountered an error while processing your request."]
  ELSE IF outcome.text = ""
    THEN [kind |-> "return", text |-> "I couldn't generate a response."]
  ELSE [kind |-> "return", text |-> outcome.text]

\* ----------------------------------------------------- App / ChatInterface
\* Texts typed into the chat box; " " stands for a whitespace-only text.
Inputs == {"", " ", "q"}
Trim(str) == IF str = " " THEN "" ELSE str
Presets == {"What are the key takeaways?"}

\* Records an analysis can deliver to App: analyzeVideo's transcript (maybe
\* undefined; two different videos' otherwise) and whether its highlights are
\* defined.
AppTranscripts ==
  {Undef, Some(MapBiliBody(<<[from |-> 0, content |-> "hello"]>>)),
   Some(MapAsr(<<[startTime |-> 65, text |-> "world"]>>))}
AppRecords == {[transcript |-> t, hasHighlights |-> h] : t \in AppTranscripts, h \in BOOLEAN}

\* useState initial values of a freshly mounted ChatInterface.
MountedChat(inst) ==
  [mounted |-> TRUE, inst |-> inst, isLoading |-> FALSE, input |-> "",
   messages |-> <<[role |-> "model", text |-> "init"]>>]
Unmounted(inst) ==
  [mounted |-> FALSE, inst |-> inst, isLoading |-> FALSE, input |-> "", messages |-> <<>>]

\* App's main view reads videoData.highlights (Timeline, HighlightList) and, on
\* the Transcript tab, videoData.transcript.length: rendering throws on an
\* undefined one, and with no error boundary React unmounts the whole tree.
RenderThrows(a) ==
  /\ ~a.isLoading /\ IsDef(a.videoData)
  /\ \/ ~a.videoData.v.hasHighlights
     \/ a.activeTab = "Transcript" /\ ~IsDef(a.videoData.v.transcript)

\* App's state once the render after a state update has run.
Rendered(a) == [a EXCEPT !.crashed = RenderThrows(a)]

\* App renders <ChatInterface> iff the main view is shown on the Chat tab.
ChatShown(a) ==
  ~a.crashed /\ ~a.isLoading /\ IsDef(a.videoData) /\ a.activeTab = "Chat"

\* The ChatInterface after App re-rendered with state a: kept, unmounted or
\* mounted as a new instance with fresh state.
Rerender(a, c) ==
  IF ChatShown(a) THEN (IF c.mounted THEN c ELSE MountedChat(c.inst + 1))
  ELSE Unmounted(c.inst)

InitChat ==
  /\ chatSession = Undef
  /\ created = 0
  /\ inflight = {}
  /\ sendLog = <<>>
  /\ app = [isLoading |-> FALSE, videoData |-> Undef, activeTab |-> "Transcript",
            error |-> "", analyses |-> 0, crashed |-> FALSE, timer |-> "none"]
  /\ chat = Unmounted(0)
  /\ sends = 0

\* App.handleAnalyze up to its await, from the landing page.
HandleAnalyze ==
  /\ ~app.crashed /\ ~app.isLoading /\ ~IsDef(app.videoData)
  /\ app.analyses < MaxAnalyses
  /\ app' = Rendered([app EXCEPT !.error = "", !.videoData = Undef, !.isLoading = TRUE,
                                 !.analyses = @ + 1, !.timer = "pending"])
  /\ chat' = Rerender(app', chat)
  /\ UNCHANGED <<chatSession, created, inflight, sendLog, sends, acqVars, fn>>

\* App.handleAnalyze after analyzeVideo threw: catch and finally.
AnalyzeThrew ==
  /\ app.isLoading
  /\ app' = Rendered([app EXCEPT !.error = "error", !.isLoading = FALSE,
                                 !.timer = "cleared"])
  /\ chat' = Rerender(app', chat)
  /\ UNCHANGED <<chatSession, created, inflight, sendLog, sends, acqVars, fn>>

\* App.handleAnalyze after analyzeVideo returned a record: setVideoData,
\* initializeChat (whose throw lands in the catch), finally.
AnalyzeReturned(rec, createThrows) ==
  /\ app.isLoading
  /\ LET r == initializeChat(rec.transcript, chatSession, created, createThrows)
     IN  /\ chatSession' = r.chatSession
         /\ created' = r.created
         /\ app' = Rendered([app EXCEPT
                       !.videoData = Some([id |-> app.analyses, transcript |-> rec.transcript,
                                           hasHighlights |-> rec.hasHighlights]),
                       !.error = IF r.threw THEN "error" ELSE @,
                       !.isLoading = FALSE, !.timer = "cleared"])
  /\ chat' = Rerender(app', chat)
  /\ UNCHANGED <<inflight, sendLog, sends, acqVars, fn>>

\* The 2 s loadingTimer set by handleAnalyze fires before clearTimeout:
\* setLoadingStep(...), which changes only the loading text.
TimerFires ==
  /\ app.timer = "pending"
  /\ app' = [app EXCEPT !.timer = "fired"]
  /\ UNCHANGED <<chatSession, created, inflight, sendLog, sends, chat, acqVars, fn>>

\* The logo's onClick on the main view: setVideoData(null).
ClickLogo ==
  /\ ~app.crashed /\ ~app.isLoading /\ IsDef(app.videoData)
  /\ app' = Rendered([app EXCEPT !.videoData = Undef])
  /\ chat' = Rerender(app', chat)
  /\ UNCHANGED <<chatSession, created, inflight, sendLog, sends, acqVars, fn>>

\* A sidebar tab's onClick on the main view: setActiveTab(tab).
SetActiveTab(tab) ==
  /\ ~app.crashed /\ ~app.isLoading /\ IsDef(app.videoData)
  /\ tab # app.activeTab
  /\ tab = "Chat" => chat.inst < MaxMounts
  /\ app' = Rendered([app EXCEPT !.activeTab = tab])
  /\ chat' = Rerender(app', chat)
  /\ UNCHANGED <<chatSession, created, inflight, sendLog, sends, acqVars, fn>>

\* The textarea's onChange.
TypeInput(text) ==
  /\ chat.mounted
  /\ text # chat.input
  /\ chat' = [chat EXCEPT !.input = text]
  /\ UNCHANGED <<chatSession, created, inflight, sendLog, sends, app, acqVars, fn>>

\* ChatInterface.handleSend with the input and isLoading of the current
\* render, past its early return: the user message is appended, and
\* sendMessageToGemini either throws at once (caught and logged, isLoading
\* back to false) or forwards the message and stays in flight. finalInput is
\* the input state the handler leaves.
SendFrom(finalInput) ==
  /\ chat.mounted
  /\ Trim(chat.input) # "" /\ ~chat.isLoading
  /\ sends < MaxSends
  /\ sends' = sends + 1
  /\ LET start == sendMessageToGemini(chatSession)
         msgs == Append(chat.messages, [role |-> "user", text |-> chat.input])
     IN  IF start.kind = "throw"
           THEN /\ sendLog' = Append(sendLog,
                       [call |-> sends + 1, hadSession |-> IsDef(chatSession),
                        forwarded |-> FALSE, outcome |-> [kind |-> "none", text |-> ""],
                        kind |-> "throw", text |-> start.message])
                /\ chat' = [chat EXCEPT !.messages = msgs, !.input = finalInput,
                                        !.isLoading = FALSE]
                /\ UNCHANGED inflight
           ELSE /\ inflight' = inflight \cup
                       {[call |-> sends + 1, session |-> chatSession, inst |-> chat.inst]}
                /\ chat' = [chat EXCEPT !.messages = msgs, !.input = finalInput,
                                        !.isLoading = TRUE]
                /\ UNCHANGED sendLog
  /\ UNCHANGED <<chatSession, created, app, acqVars, fn>>

\* Enter key or the send button: handleSend.
HandleSend == SendFrom("")

\* A preset chip's onClick, shown while messages.length < 3:
\* setInput(p); handleSend(). handleSend still reads the render's input, so
\* with an empty box it returns early and only the input changes.
PresetClick(p) ==
  /\ chat.mounted
  /\ Len(chat.messages) < 3
  /\ IF Trim(chat.input) # "" /\ ~chat.isLoading
       THEN SendFrom("")
       ELSE /\ chat' = [chat EXCEPT !.input = p]
            /\ p # chat.input
            /\ UNCHANGED <<chatSession, created, inflight, sendLog, sends, app, acqVars, fn>>

\* chatSession.sendMessage settles: sendMessageToGemini settles, and
\* handleSend's continuation appends the model message (its catch only logs a
\* throw) and clears isLoading on the instance that sent (a no-op once that
\* instance is unmounted).
ChatReply(c, outcome) ==
  /\ c \in inflight
  /\ inflight' = inflight \ {c}
  /\ sendLog' = Append(sendLog,
         [call |-> c.call, hadSession |-> IsDef(c.session), forwarded |-> TRUE,
          outcome |-> outcome,
          kind |-> sendMessageReply(outcome).kind, text |-> sendMessageReply(outcome).text])
  /\ chat' = IF chat.mounted /\ chat.inst = c.inst
               THEN [chat EXCEPT
                       !.messages = IF sendMessageReply(outcome).kind = "return"
                                      THEN Append(@, [role |-> "model",
                                                      text |-> sendMessageReply(outcome).text])
                                      ELSE @,
                       !.isLoading = FALSE]
               ELSE chat
  /\ UNCHANGED <<chatSession, created, app, sends, acqVars, fn>>

\* The steps of App and ChatInterface that touch the chat. The loadingTimer
\* callback changes only the loading text and is a step of the request below.
NextChat ==
  \/ HandleAnalyze
  \/ AnalyzeThrew
  \/ \E rec \in AppRecords, createThrows \in BOOLEAN : AnalyzeReturned(rec, createThrows)
  \/ ClickLogo
  \/ \E tab \in {"Transcript", "Chat", "Notes"} : SetActiveTab(tab)
  \/ \E text \in Inputs : TypeInput(text)
  \/ HandleSend
  \/ \E p \in Presets : PresetClick(p)
  \/ \E c \in inflight, o \in ChatOutcomes : ChatReply(c, o)

Init == InitAcq /\ InitChat /\ fn = [op |-> "none", in |-> <<>>, out |-> <<>>]

\* The acquisition cascade: one analyzeVideo request against the backend.
Spec == Init /\ [][NextAcq]_vars

\* The assistant: App's analyses, the tabs, the ChatInterface and the session.
SpecChat == Init /\ [][NextChat]_vars

\* ----------------------------------------------- the texts of the prompts
\* A text is a sequence of pieces; a piece is the leading len characters of
\* the string it is taken from (of).
Piece(of, len) == [of |-> of, len |-> len]

RECURSIVE TextLen(_)
TextLen(text) == IF text = <<>> THEN 0 ELSE Head(text).len + TextLen(Tail(text))

\* String.prototype.slice(0, k): the leading k characters.
RECURSIVE Slice(_, _)
Slice(text, k) ==
  IF text = <<>> \/ k <= 0 THEN <<>>
  ELSE IF Head(text).len <= k
    THEN <<Head(text)>> \o Slice(Tail(text), k - Head(text).len)
  ELSE <<Piece(Head(text).of, k)>>

\* Array.prototype.join(" ").
RECURSIVE Join(_)
Join(texts) ==
  IF texts = <<>> THEN <<>>
  ELSE IF Len(texts) = 1 THEN <<texts[1]>>
  ELSE <<texts[1], Piece(" ", 1)>> \o Join(Tail(texts))

\* mockData.ts 110: the cap on the joined segment texts.
TranscriptCap == 15000
\* geminiService generateVideoContent: the cap on the description in the prompt.
DescriptionCap == 1000

\* mockData.ts 110: finalTranscript.map(t => t.text).join(" ").slice(0, 15000).
TranscriptText(texts) == Slice(Join(texts), TranscriptCap)

\* mockData.ts 113: `TRANSCRIPT_CONTEXT: ${transcriptText}`.
HighlightDescription(texts) == <<Piece("TRANSCRIPT_CONTEXT: ", 20)>> \o TranscriptText(texts)

\* The description placed in the prompt with no cap.
PromptDescription_Whole(description) == description

\* generateVideoContent's prompt: "${description.slice(0, 1000)}".
PromptDescription(description) == Slice(description, DescriptionCap)

\* The most segments of a transcript whose texts are joined.
MaxTexts == 3
\* Lengths of segment texts and of descriptions, around the two caps.
TextLens == {0, 1, 979, 7500, 15001}
DescriptionLens == {0, 1, 999, 1000, 1001, 20000}
\* Transcript lengths around the cap of initializeChat.
TranscriptLens == {0, 1, 2, 299, 300, 301, 350}

\* The texts of a transcript whose i-th segment text has lens[i] characters.
SegmentTexts(lens) == [i \in 1..Len(lens) |-> Piece(<<"text", i>>, lens[i])]

\* A transcript of n segments, one every 7 seconds.
LongTranscript(n) ==
  [i \in 1..n |-> [id |-> <<"t", i - 1>>, startTime |-> 7 * (i - 1), text |-> i,
                    timestamp |-> formatTime(7 * (i - 1))]]

\* mockData.ts 109-118 with the prompt of generateVideoContent: the description
\* the highlight call puts in its prompt, for a non-empty transcript.
HighlightPrompt(lens) ==
  /\ Len(lens) > 0
  /\ fn' = [op |-> "highlights", in |-> SegmentTexts(lens),
            out |-> PromptDescription(HighlightDescription(SegmentTexts(lens)))]
  /\ UNCHANGED <<acqVars, chatVars>>

\* generateVideoContent called with a description string of n characters.
FabricationPrompt(n) ==
  /\ fn' = [op |-> "fabrication", in |-> <<Piece("description", n)>>,
            out |-> PromptDescription(<<Piece("description", n)>>)]
  /\ UNCHANGED <<acqVars, chatVars>>

\* initializeChat called on a transcript of n segments, no session before.
InitializeChatOn(n) ==
  /\ fn' = [op |-> "initializeChat", in |-> LongTranscript(n),
            out |-> initializeChat(Some(LongTranscript(n)), Undef, 0, FALSE)]
  /\ UNCHANGED <<acqVars, chatVars>>

NextText ==
  \/ \E lens \in SeqsUpTo(TextLens, MaxTexts) : HighlightPrompt(lens)
  \/ \E n \in DescriptionLens : FabricationPrompt(n)
  \/ \E n \in TranscriptLens : InitializeChatOn(n)

\* The text functions applied to inputs around their caps.
SpecText == Init /\ [][NextText]_vars

\* ------------------------------------- one request, from App to analyzeVideo
\* The URLs analysed end to end: one per route of the request (Bilibili,
\* YouTube, identifier throwing, no platform, BV id only the client matches).
RequestUrls == {UrlBiliFull, UrlYtWatch, UrlYtBadId, UrlNotAVideo, UrlStrayBV}

\* App.handleAnalyze up to its await together with analyzeVideo's first
\* statement: the state updates, the loadingTimer, and the POST.
RequestStarts(u) ==
  /\ pc = "idle"
  /\ ~app.crashed /\ ~app.isLoading /\ ~IsDef(app.videoData)
  /\ app' = Rendered([app EXCEPT !.error = "", !.videoData = Undef, !.isLoading = TRUE,
                                 !.analyses = @ + 1, !.timer = "pending"])
  /\ chat' = Rerender(app', chat)
  /\ url' = u
  /\ calls' = <<"POST">>
  /\ pc' = "post"
  /\ UNCHANGED <<srv, clip, resp, cli, metaInfo, genArgs, result, payload, asrOut, origin,
                 chatSession, created, inflight, sendLog, sends, fn>>

\* handleAnalyze with no finally block: after a throw of analyzeVideo the
\* loading state and the timer are left as they are.
RequestSettles_NoFinally(createThrows) ==
  /\ pc = "done" /\ app.isLoading
  /\ pc' = "closed"
  /\ IF result.kind = "throw"
       THEN /\ app' = Rendered([app EXCEPT !.error = "error"])
            /\ UNCHANGED <<chatSession, created>>
       ELSE LET r == initializeChat(result.data.transcript, chatSession, created, createThrows)
            IN  /\ chatSession' = r.chatSession
                /\ created' = r.created
                /\ app' = Rendered([app EXCEPT
                              !.videoData = Some([id |-> app.analyses,
                                                  transcript |-> result.data.transcript,
                                                  hasHighlights |-> IsDef(result.data.highlights)]),
                              !.error = IF r.threw THEN "error" ELSE @,
                              !.isLoading = FALSE, !.timer = "cleared"])
  /\ chat' = Rerender(app', chat)
  /\ UNCHANGED <<url, calls, srv, clip, resp, cli, metaInfo, genArgs, result, payload, asrOut,
                 origin, inflight, sendLog, sends, fn>>

\* analyzeVideo's promise settles and handleAnalyze runs its try, catch and
\* finally: a record is stored and initializeChat called (its throw caught),
\* a throw sets the error; either way clearTimeout and setIsLoading(false).
RequestSettles(createThrows) ==
  /\ pc = "done" /\ app.isLoading
  /\ pc' = "closed"
  /\ IF result.kind = "throw"
       THEN /\ app' = Rendered([app EXCEPT !.error = "error", !.isLoading = FALSE,
                                           !.timer = "cleared"])
            /\ UNCHANGED <<chatSession, created>>
       ELSE LET r == initializeChat(result.data.transcript, chatSession, created, createThrows)
            IN  /\ chatSession' = r.chatSession
                /\ created' = r.created
                /\ app' = Rendered([app EXCEPT
                              !.videoData = Some([id |-> app.analyses,
                                                  transcript |-> result.data.transcript,
                                                  hasHighlights |-> IsDef(result.data.highlights)]),
                              !.error = IF r.threw THEN "error" ELSE @,
                              !.isLoading = FALSE, !.timer = "cleared"])
  /\ chat' = Rerender(app', chat)
  /\ UNCHANGED <<url, calls, srv, clip, resp, cli, metaInfo, genArgs, result, payload, asrOut,
                 origin, inflight, sendLog, sends, fn>>

NextRequest ==
  \/ \E u \in RequestUrls : RequestStarts(u)
  \/ PostBackend
  \/ ServerRoute
  \/ BiliView
  \/ BiliPlayer
  \/ BiliSubtitle
  \/ BiliPlayUrl
  \/ BiliAudio
  \/ YtInfo
  \/ YtTranscript
  \/ YtAudio
  \/ TranscribeAudio
  \/ ClientResponse
  \/ GenerateHighlights
  \/ GenerateFabricated
  \/ FetchProxy
  \/ FallbackGenerate
  \/ TimerFires
  \/ \E createThrows \in BOOLEAN : RequestSettles(createThrows)

\* One request end to end. Every external call eventually returns or fails
\* and every continuation is eventually run: weak fairness of the next step.
SpecRequest == Init /\ [][NextRequest]_vars /\ WF_vars(NextRequest)

\* ================================================================ claims
IsOfficial(d) == d.isTranscriptSimulated = Some(FALSE) /\ d.isAiTranscribed = Some(FALSE)
\* The elements of a list field of a record, none when the field is undefined.
Items(o) == IF IsDef(o) THEN o.v ELSE <<>>
PayloadTexts == IF IsDef(payload) THEN {payload.v[i] : i \in 1..Len(payload.v)} ELSE {}
\* The backend recognises the URL: a supported platform and an id.
Recognised(u) ==
  LET p == detectPlatform(u)
  IN  p \in {"bilibili", "youtube"} /\ ~extractId(u, p).threw /\ IsDef(extractId(u, p).id)

\* C1: in every returned record the flags never overstate the tier: segments
\* that came from the fabrication call are flagged simulated, and a record
\* flagged Official (neither simulated nor AI-transcribed) holds only
\* segments whose text is a text of the caption payload.
C1_ProvenanceNeverOverstated ==
  result.kind = "record" =>
    LET d == result.data
    IN  /\ (origin = "fabrication" /\ Items(d.transcript) # <<>>)
             => d.isTranscriptSimulated = Some(TRUE)
        /\ IsOfficial(d) =>
             \A i \in 1..Len(Items(d.transcript)) :
               Items(d.transcript)[i].text \in PayloadTexts

\* C2: whenever the backend retrieved a caption payload (source 'official'),
\* the returned record is flagged Official and its transcript has one segment
\* per payload entry, in order, with the entry's text, for every payload and
\* every answer of the highlight call.
C2_OfficialVerbatim ==
  (result.kind = "record" /\ IsDef(payload)) =>
    LET d == result.data
    IN  /\ IsOfficial(d)
        /\ Len(Items(d.transcript)) = Len(payload.v)
        /\ \A i \in 1..Len(payload.v) : Items(d.transcript)[i].text = payload.v[i]

\* C3: whenever the audio fallback completed (source 'ai_transcription'), the
\* returned record is flagged AI-transcribed and not simulated, and its
\* transcript is the list transcribeAudioWithGemini produced, an empty one
\* included.
C3_MachineTranscribed ==
  (result.kind = "record" /\ IsDef(asrOut)) =>
    LET d == result.data
    IN  /\ d.isAiTranscribed = Some(TRUE)
        /\ d.isTranscriptSimulated = Some(FALSE)
        /\ Items(d.transcript) = asrOut.v

\* C4: every record returned after caption and audio tier yielded nothing
\* (backend source 'none', or the fallback path) is flagged simulated, and its
\* transcript and highlights are both non-empty or both empty, whatever the
\* one generateVideoContent call answered.
C4_FabricatedBothOrNeither ==
  (/\ result.kind = "record"
   /\ \/ result.source = "ai-simulated"
      \/ resp.status = 200 /\ resp.body.subtitleSource = "none") =>
    LET d == result.data
    IN  /\ d.isTranscriptSimulated = Some(TRUE)
        /\ (Items(d.transcript) # <<>>) <=> (Items(d.highlights) # <<>>)

\* C5: when the metadata endpoint answers with a domain error (code !== 0),
\* analyzeVideo returns no record and makes no fabrication call.
C5_UpstreamRejectedIsTerminal ==
  srv.view = "reject" =>
    /\ result.kind # "record"
    /\ \A i \in 1..Len(calls) : calls[i] # "GEN"

\* C6: for every URL the platform identifier recognises, short of an explicit
\* platform rejection no collaborator failure makes analyzeVideo throw.
C6_RecognisedUrlNeverThrows ==
  (Recognised(url) /\ srv.view # "reject") => result.kind # "throw"

\* C7: for a URL that matches no platform pattern the acquisition fails with
\* the invalid-reference error and no network call is issued before it.
C7_InvalidReferenceNoNetwork ==
  (pc # "idle" /\ detectPlatform(url) = "unknown") =>
    /\ calls = <<>>
    /\ pc = "done" => result = Threw("Invalid URL")

\* C8: sendMessageToGemini called while chatSession is null fails with
\* "Chat session not initialized", forwards nothing to the chat capability and
\* returns no reply.
C8_SendBeforeInitializeFails ==
  /\ \A i \in 1..Len(sendLog) :
       ~sendLog[i].hadSession =>
         /\ sendLog[i].kind = "throw"
         /\ sendLog[i].text = "Chat session not initialized"
         /\ ~sendLog[i].forwarded
  /\ \A c \in inflight : IsDef(c.session)

\* A send was made from the ChatInterface while chatSession was null.
C8_Witness ==
  \E i \in 1..Len(sendLog) : ~sendLog[i].hadSession /\ sendLog[i].kind = "throw"

\* C9: with a session initialised, sendMessageToGemini never raises: it
\* returns the reply text, the fixed fallback on an empty text, or the fixed
\* apology when the capability fails.
C9_SendNeverRaises ==
  \A i \in 1..Len(sendLog) :
    sendLog[i].hadSession =>
      /\ sendLog[i].kind = "return"
      /\ sendLog[i].text =
           (IF sendLog[i].outcome.kind = "error"
              THEN "Sorry, I encountered an error while processing your request."
            ELSE IF sendLog[i].outcome.text = "" THEN "I couldn't generate a response."
            ELSE sendLog[i].outcome.text)

\* A send against an initialised session settled after the capability failed.
C9_Witness ==
  \E i \in 1..Len(sendLog) : sendLog[i].hadSession /\ sendLog[i].outcome.kind = "error"

\* C10: at most one send exchange is in flight against the chat session at
\* any time.
C10_OneExchangeInFlight ==
  \A c1 \in inflight, c2 \in inflight : c1.session = c2.session => c1 = c2

\* C11: one active session, replaced atomically: the active session is always
\* the conversation the latest completed initializeChat created, and every
\* exchange started from the ChatInterface on display, whose reply will be
\* appended to the history shown, was forwarded to that session and never
\* to an earlier conversation.
C11_SessionReplacedAtomically ==
  /\ IsDef(chatSession) => chatSession.v.id = created
  /\ \A c \in inflight : (chat.mounted /\ c.inst = chat.inst) => c.session = chatSession

\* An exchange of the first conversation is still pending while a send has
\* been forwarded to the second conversation from its ChatInterface.
C11_Witness ==
  /\ created = 2 /\ chat.mounted
  /\ \E c \in inflight : c.session.v.id = 1
  /\ \E c \in inflight : c.session.v.id = 2 /\ c.inst = chat.inst

\* The exchanges a step starts.
Started == inflight' \ inflight

\* C12: once handleAnalyze has started a new analysis no send reaches the
\* previous acquisition's conversation: every send forwarded from the main
\* view goes to a conversation briefed with the transcript of the record on
\* display, also after the analysis ended in an error.
C12_NoSendToPreviousSession ==
  [][\A c \in Started :
       /\ IsDef(app.videoData) /\ IsDef(app.videoData.v.transcript)
       /\ c.session.v.context = Context(app.videoData.v.transcript.v)]_vars

\* The call names issued so far.
Called(name) == \E i \in 1..Len(calls) : calls[i] = name
\* analyzeVideo ended and no response of the backend ever arrived: the POST
\* failed at transport level.
TransportFailed == pc = "done" /\ resp.status = 0
\* analyzeVideo ended on the reduced path after fetchBilibiliVideoInfo threw.
ProxyFailed ==
  /\ pc = "done" /\ Called("PROXY")
  /\ metaInfo = OfflineMeta(extractBvid(url).v)

\* C13: when the POST fails at transport level (for a URL the platform
\* identifier recognises) analyzeVideo issues no caption and no audio request,
\* asks the proxy for metadata, calls generateVideoContent exactly once and
\* returns a record flagged simulated with source 'ai-simulated'.
C13_TransportFailureReducedPath ==
  (TransportFailed /\ Recognised(url)) =>
    /\ calls = <<"POST", "PROXY", "GEN">>
    /\ result.kind = "record"
    /\ result.data.isTranscriptSimulated = Some(TRUE)
    /\ result.source = "ai-simulated"

\* C14: on the reduced path, when fetchBilibiliVideoInfo fails, the generative
\* call gets title "Video (Offline Mode)", author "Unknown" and duration 600,
\* and analyzeVideo returns a record carrying exactly those values.
C14_PlaceholderMetadata ==
  ProxyFailed =>
    /\ genArgs.title = "Video (Offline Mode)"
    /\ genArgs.author = "Unknown"
    /\ genArgs.duration = 600
    /\ result.kind = "record"
    /\ result.data.title = "Video (Offline Mode)"
    /\ result.data.author = "Unknown"
    /\ result.data.duration = 600

\* C15: a failure while resolving captions (Bilibili player call or subtitle
\* body, YouTube fetchTranscript) never ends the request with an error
\* response: the backend goes on to the audio tier.
C15_CaptionFailureFallsToAudio ==
  (Called("BILI_PLAYER") \/ Called("BILI_SUBTITLE") \/ Called("YT_TRANSCRIPT")) =>
    resp.status \in {0, 200}

\* C16: a failure of any step of the audio fallback does not fail the
\* request: the server answers 200 with the metadata, and when no
\* transcription was produced with an empty transcript and source 'none'.
C16_AudioFailureIsNotFatal ==
  ((Called("BILI_PLAYURL") \/ Called("YT_AUDIO")) /\ resp.status # 0) =>
    /\ resp.status = 200
    /\ resp.body.title = srv.meta.title /\ resp.body.author = srv.meta.author
    /\ resp.body.duration = srv.meta.duration /\ resp.body.bvid = srv.meta.bvid
    /\ ~IsDef(asrOut) =>
         resp.body.transcript = <<>> /\ resp.body.subtitleSource = "none"
    /\ IsDef(asrOut) =>
         resp.body.transcript = asrOut.v /\ resp.body.subtitleSource = "ai_transcription"

\* The transcription call was made and failed, and the response was sent.
C16_Witness ==
  /\ Called("ASR") /\ ~IsDef(asrOut)
  /\ resp.status = 200 /\ resp.body.subtitleSource = "none"

\* The outcomes of ai.models.generateContent that count as a failed call.
FailedKinds == {"error", "empty", "badjson"}
\* analyzeVideo ended and its last generative call was the highlight call
\* (transcript context) / a fabrication call (description).
LastCallHighlights == pc = "done" /\ genArgs.description = "TRANSCRIPT_CONTEXT"
LastCallFabrication ==
  pc = "done" /\ genArgs.outcome # "none" /\ genArgs.description # "TRANSCRIPT_CONTEXT"

\* C17: generateVideoContent never raises: for every description, an undefined
\* one included, and every failed call (error, empty text, invalid JSON) it
\* returns {highlights: [], transcript: []}, and analyzeVideo then returns a
\* record with empty transcript and highlights flagged simulated.
C17_GenerateNeverRaises ==
  /\ pc = "gen_fab" =>
       \A o \in GenOutcomes :
         o.kind \in FailedKinds =>
           generateVideoContent(resp.body.description, o) =
             [threw |-> FALSE, value |-> EmptyContent]
  /\ (LastCallFabrication /\ genArgs.outcome \in FailedKinds) =>
       /\ result.kind = "record"
       /\ result.data.transcript = Some(<<>>)
       /\ result.data.highlights = Some(<<>>)
       /\ result.data.isTranscriptSimulated = Some(TRUE)

\* C18: when a real or machine-transcribed transcript exists and the
\* highlight call fails, analyzeVideo returns the backend-path record with
\* highlights [], the backend transcript intact and the flags of the
\* backend's source, without going to the reduced path.
C18_HighlightFailureIsNotFatal ==
  (LastCallHighlights /\ genArgs.outcome \in FailedKinds) =>
    /\ result.kind = "record"
    /\ result.source = "backend"
    /\ result.data.highlights = Some(<<>>)
    /\ result.data.transcript = Some(resp.body.transcript)
    /\ result.data.isTranscriptSimulated = Some(FALSE)
    /\ result.data.isAiTranscribed = Some(resp.body.subtitleSource = "ai_transcription")
    /\ ~Called("PROXY")

\* The highlight call failed for a machine-transcribed transcript and
\* analyzeVideo returned.
C18_Witness ==
  /\ LastCallHighlights /\ genArgs.outcome = "error"
  /\ IsDef(asrOut) /\ result.kind = "record"

\* C19: every highlight of every returned record satisfies
\* 0 <= startTime < endTime <= duration of the record.
C19_HighlightsWithinDuration ==
  result.kind = "record" =>
    \A i \in 1..Len(Items(result.data.highlights)) :
      LET h == Items(result.data.highlights)[i]
      IN  0 <= h.startTime /\ h.startTime < h.endTime /\ h.endTime <= result.data.duration

\* C20: in every returned record startTime is non-decreasing along the
\* transcript, whichever tier produced it.
C20_TranscriptSorted ==
  result.kind = "record" =>
    \A i \in 1..Len(Items(result.data.transcript)), j \in 1..Len(Items(result.data.transcript)) :
      i < j => Items(result.data.transcript)[i].startTime
                 <= Items(result.data.transcript)[j].startTime

\* C21: the platform identifier (detectPlatform + extractId) is total and
\* never raises, accepts a bare platform-native id for each platform as well
\* as a full URL, and the request is answered 400, before any platform call,
\* exactly when no platform pattern matches.
C21_PlatformIdentifierTotal ==
  pc # "idle" =>
    LET p  == detectPlatform(url)
        ex == extractId(url, p)
    IN  /\ ~ex.threw
        /\ ~IsDef(ex.id) <=> p = "unknown"
        /\ url = UrlBiliBare => (p = "bilibili" /\ ex.id = Some(url))
        /\ url = UrlYtBare => (p = "youtube" /\ ex.id = Some(url))
        /\ resp.status = 400 <=> (resp.status # 0 /\ p = "unknown")

\* C22: every analyzeVideo invocation eventually ends, returning a record or
\* throwing, and handleAnalyze then has isLoading false and its loadingTimer
\* cleared.
C22_RequestTerminates ==
  app.isLoading ~>
    (/\ result.kind \in {"record", "throw"}
     /\ ~app.isLoading
     /\ app.timer = "cleared")

\* A request ended with analyzeVideo throwing after its timer had fired, and
\* handleAnalyze has finished.
C22_Witness ==
  /\ pc = "closed" /\ result.kind = "throw"
  /\ ~app.isLoading /\ app.timer = "cleared" /\ app.error = "error"

ServerCalls ==
  {"BILI_VIEW", "BILI_PLAYER", "BILI_SUBTITLE", "BILI_PLAYURL", "BILI_AUDIO",
   "YT_INFO", "YT_TRANSCRIPT", "YT_AUDIO", "ASR"}
AudioCalls == {"BILI_PLAYURL", "BILI_AUDIO", "YT_AUDIO", "ASR"}
\* Every occurrence of call a comes before every occurrence of call b.
Precedes(a, b) ==
  \A j \in 1..Len(calls) : calls[j] = b => \A i \in j..Len(calls) : calls[i] # a

\* C23: the tiers run in a fixed order, each conditioned on the previous
\* outcome: the caption calls come only after a successful metadata call, the
\* Bilibili subtitle body is fetched only when the player call listed at least
\* one subtitle, the audio calls come only after caption resolution gave no
\* captions and never when a caption payload was retrieved, and
\* generateVideoContent is called only after the POST completed or failed.
C23_TiersInOrder ==
  /\ (Called("BILI_PLAYER") \/ Called("YT_TRANSCRIPT")) => srv.view = "ok"
  /\ Precedes("BILI_VIEW", "BILI_PLAYER") /\ Precedes("YT_INFO", "YT_TRANSCRIPT")
  /\ Called("BILI_PLAYER") => Called("BILI_VIEW")
  /\ Called("YT_TRANSCRIPT") => Called("YT_INFO")
  /\ Called("BILI_SUBTITLE") => (Called("BILI_PLAYER") /\ srv.subtitles > 0)
  /\ Precedes("BILI_PLAYER", "BILI_SUBTITLE")
  /\ \A a \in AudioCalls :
       Called(a) =>
         /\ ~IsDef(payload)
         /\ ~Called("BILI_SUBTITLE")
         /\ \/ Called("BILI_PLAYER") /\ srv.subtitles = 0
            \/ Called("YT_TRANSCRIPT")
         /\ Precedes("BILI_PLAYER", a) /\ Precedes("YT_TRANSCRIPT", a)
  /\ Precedes("BILI_PLAYURL", "BILI_AUDIO") /\ Precedes("BILI_AUDIO", "ASR")
  /\ Precedes("YT_AUDIO", "ASR")
  /\ Called("GEN") =>
       /\ calls[1] = "POST"
       /\ \A j \in 1..Len(calls) :
            calls[j] = "GEN" => \A i \in j..Len(calls) : calls[i] \notin ServerCalls
       /\ resp.status # 0 \/ \A i \in 1..Len(calls) : calls[i] \notin ServerCalls
       /\ pc \in {"proxy", "fb_gen", "done"}

\* A Bilibili request whose player call listed no subtitle went through the
\* audio download and the transcription, and the client then called
\* generateVideoContent.
C23_Witness ==
  /\ pc = "done" /\ result.kind = "record"
  /\ srv.subtitles = 0
  /\ calls = <<"POST", "BILI_VIEW", "BILI_PLAYER", "BILI_PLAYURL", "BILI_AUDIO", "ASR", "GEN">>

\* The characters of a text, without its empty pieces.
Norm(text) == SelectSeq(text, LAMBDA piece : piece.len > 0)

\* C24: the transcript text in the prompt of the highlight call is the first
\* 15,000 characters of the space-joined segment texts, every one of them and
\* none beyond.
C24_TranscriptTextCap ==
  fn.op = "highlights" =>
    /\ Len(fn.out) > 0 /\ fn.out[1] = Piece("TRANSCRIPT_CONTEXT: ", 20)
    /\ Norm(Tail(fn.out)) = Norm(Slice(Join(fn.in), TranscriptCap))

\* C25: the buffer passed to transcribeAudioWithGemini is the leading
\* min(n, 20 MiB) bytes of the n-byte audio payload, on the Bilibili and on
\* the YouTube path, and an oversized payload goes on to the transcription.
C25_AudioClippedTo20MiB ==
  /\ Called("ASR") =>
       /\ Called("BILI_AUDIO") \/ Called("YT_AUDIO")
       /\ clip.bufferToUse.start = 0
       /\ clip.bufferToUse.end =
            (IF clip.byteLength < ClipLimit THEN clip.byteLength ELSE ClipLimit)
  /\ clip.byteLength > ClipLimit => (pc = "asr" \/ Called("ASR"))

\* An oversized YouTube audio payload was clipped and transcribed.
C25_Witness ==
  /\ Called("YT_AUDIO") /\ Called("ASR")
  /\ clip.byteLength = ClipLimit + 1
  /\ clip.bufferToUse = [start |-> 0, end |-> ClipLimit]
  /\ IsDef(asrOut)

\* C26: initializeChat builds the briefing from exactly the first
\* min(300, n) segments of an n-segment transcript, in order, one line of
\* timestamp and text per segment; no segment at index 300 or later is in it,
\* and a session is created also for the empty transcript.
C26_BriefingFirst300 ==
  fn.op = "initializeChat" =>
    LET n == Len(fn.in)
        k == IF n < 300 THEN n ELSE 300
    IN  /\ ~fn.out.threw /\ IsDef(fn.out.chatSession) /\ fn.out.created = 1
        /\ Len(fn.out.chatSession.v.context) = k
        /\ \A i \in 1..k :
             fn.out.chatSession.v.context[i] = <<fn.in[i].timestamp, fn.in[i].text>>
        /\ \A i \in 301..n : \A j \in 1..k :
             fn.out.chatSession.v.context[j][2] # fn.in[i].text

\* initializeChat was called on a transcript of 301 segments and the briefing
\* has 300 lines, the last one that of the 300th segment.
C26_Witness ==
  /\ fn.op = "initializeChat" /\ Len(fn.in) = 301
  /\ Len(fn.out.chatSession.v.context) = 300
  /\ fn.out.chatSession.v.context[300] = <<fn.in[300].timestamp, fn.in[300].text>>

\* "MM:SS": minutes and seconds, each padded to two digits.
MMSS(seconds) ==
  PadStart2(ToDigits(seconds \div 60)) \o <<":">> \o PadStart2(ToDigits(seconds % 60))

\* C27: every transcript segment built by the backend has as timestamp the
\* "MM:SS" formatting of its startTime, two-digit minutes and two-digit seconds.
C27_TimestampIsMMSS ==
  \A i \in 1..Len(srv.transcript) :
    srv.transcript[i].timestamp = MMSS(srv.transcript[i].startTime)

\* C28: no two segments of the transcript of a returned record share an id,
\* whichever tier produced the transcript.
C28_SegmentIdsUnique ==
  result.kind = "record" =>
    LET t == Items(result.data.transcript)
    IN  \A i, j \in 1..Len(t) : t[i].id = t[j].id => i = j

\* Text a is made of the leading characters of text b.
IsPrefixOf(a, b) ==
  LET na == Norm(a)
      nb == Norm(b)
  IN  /\ Len(na) <= Len(nb)
      /\ \A i \in 1..(Len(na) - 1) : na[i] = nb[i]
      /\ Len(na) > 0 =>
           /\ na[Len(na)].of = nb[Len(na)].of
           /\ na[Len(na)].len <= nb[Len(na)].len

\* The description argument of the generateVideoContent call applied last.
DescriptionArgument ==
  IF fn.op = "highlights" THEN HighlightDescription(fn.in) ELSE fn.in

\* C29: the description in the prompt of generateVideoContent is the first
\* 1000 characters of the description argument: a prefix of it, of length
\* min(len, 1000).
C29_DescriptionCap ==
  fn.op \in {"fabrication", "highlights"} =>
    /\ TextLen(fn.out) =
         (IF TextLen(DescriptionArgument) < 1000 THEN TextLen(DescriptionArgument) ELSE 1000)
    /\ IsPrefixOf(fn.out, DescriptionArgument)

\* A description of 1001 characters went into the prompt as its first 1000.
C29_Witness ==
  /\ fn.op = "fabrication" /\ TextLen(fn.in) = 1001
  /\ fn.out = <<Piece("description", 1000)>>

\* C30: whenever App displays a record (videoData non-null and the main view
\* rendered), the active chat session is one initialised from that record's
\* transcript, so that a send goes neither to a session of another video nor
\* to no session.
C30_SessionMatchesRecord ==
  (IsDef(app.videoData) /\ ~app.isLoading /\ ~app.crashed) =>
    /\ IsDef(chatSession)
    /\ IsDef(app.videoData.v.transcript)
    /\ chatSession.v.context = Context(app.videoData.v.transcript.v)

\* C31: every record analyzeVideo returns for a URL carries the platform that
\* detectPlatform assigns to the URL and the id that extractId assigns to it,
\* on the backend path and on the fallback path.
C31_RecordKeepsPlatformAndId ==
  result.kind = "record" =>
    LET p == detectPlatform(url)
        ex == extractId(url, p)
    IN  /\ ~ex.threw
        /\ IsDef(ex.id)
        /\ result.data.platform = p
        /\ result.data.bvid = ex.id.v

\* analyzeVideo took the highlight branch: the backend answered 200 with a
\* transcript that is not simulated and not empty, and the generative call
\* was made.
HighlightBranchTaken ==
  /\ resp.status = 200 /\ ~cli.isSimulated /\ Len(cli.finalTranscript) > 0
  /\ Called("GEN")

\* C32: on the highlight branch the transcript of the returned record is the
\* backend's transcript, for every output of generateVideoContent; a
\* transcript in that output is never copied into the record.
C32_HighlightBranchKeepsTranscript ==
  (HighlightBranchTaken /\ result.kind = "record") =>
    /\ result.data.transcript = Some(resp.body.transcript)
    /\ origin = "backend"

\* C33: in every 200 response of the backend subtitleSource is 'official',
\* 'ai_transcription' or 'none'; 'none' comes with an empty transcript,
\* 'official' only with the caption payload fetched and mapped,
\* 'ai_transcription' only with the list transcribeAudioWithGemini returned
\* and never when captions were retrieved.
C33_SubtitleSourceConsistent ==
  resp.status = 200 =>
    /\ resp.body.subtitleSource \in {"official", "ai_transcription", "none"}
    /\ resp.body.subtitleSource = "none" => resp.body.transcript = <<>>
    /\ resp.body.subtitleSource = "official" =>
         /\ IsDef(payload)
         /\ Len(resp.body.transcript) = Len(payload.v)
         /\ \A i \in 1..Len(payload.v) : resp.body.transcript[i].text = payload.v[i]
    /\ resp.body.subtitleSource = "ai_transcription" =>
         /\ IsDef(asrOut) /\ resp.body.transcript = asrOut.v
         /\ ~IsDef(payload)
    /\ IsDef(payload) => resp.body.subtitleSource = "official"

\* The backend answered 200 with source 'none' after the transcription failed.
C33_Witness ==
  /\ resp.status = 200 /\ resp.body.subtitleSource = "none"
  /\ resp.body.transcript = <<>>
  /\ Called("ASR") /\ ~IsDef(asrOut)

\* C34: in every record analyzeVideo returns, isTranscriptSimulated and
\* isAiTranscribed are never both true, and source 'ai-simulated' comes with
\* isTranscriptSimulated true.
C34_FlagsExclusive ==
  result.kind = "record" =>
    /\ ~(result.data.isTranscriptSimulated = Some(TRUE)
          /\ result.data.isAiTranscribed = Some(TRUE))
    /\ result.source = "ai-simulated" => result.data.isTranscriptSimulated = Some(TRUE)

\* The fallback path returned a record: source 'ai-simulated', flagged
\* simulated, isAiTranscribed not set.
C34_Witness ==
  /\ result.kind = "record" /\ result.source = "ai-simulated"
  /\ result.data.isTranscriptSimulated = Some(TRUE)
  /\ result.data.isAiTranscribed = Undef
  /\ Called("PROXY")

\* The request entered handleBilibili or handleYoutube.
HandlerEntered == Called("BILI_VIEW") \/ Called("YT_INFO")

\* C35: every request to POST /api/analyze gets exactly one response, never
\* two: 400 when no id can be extracted from the URL, which covers every URL
\* of platform 'unknown'; 500 when a handler threw before responding; else
\* the 200 body of the platform handler.
C35_ExactlyOneResponse ==
  /\ resp.sent <= 1
  /\ pc \in {"cli_resp", "gen_hl", "gen_fab"} => resp.sent = 1
  /\ resp.sent = 1 =>
       LET p == detectPlatform(url)
           ex == extractId(url, p)
       IN  /\ resp.status \in {200, 400, 500}
           /\ resp.status = 400 <=> (ex.threw \/ ~IsDef(ex.id))
           /\ p = "unknown" => resp.status = 400
           /\ resp.status \in {200, 500} => HandlerEntered
           /\ resp.status = 200 => resp.body.platform = p

=============================================================================
